---- MODULE Spec2Model ----
(***************************************************************************)
(* Model of the analytics pipeline of MSY_Final.py: the item classifier,   *)
(* the item summary and the What-If simulation, the Pareto analysis, the   *)
(* growth ("movers and shakers") analysis and the monthly aggregation.     *)
(*                                                                         *)
(* Each component is checked under its own specification (SpecClassify,    *)
(* SpecWhatIf, SpecPareto, SpecGrowth, SpecMonthly); a component's         *)
(* specification leaves the other components' variables at their initial   *)
(* values.                                                                 *)
(***************************************************************************)
EXTENDS Integers, Sequences, FiniteSets, TLC

VARIABLES
    item_name,        \* categorize_item: the argument (a sequence of characters)
    category,         \* categorize_item: the value returned ("unset" before the call)
    df,               \* the cleaned dataset: a sequence of rows
    frames,           \* the heap of data frames: frame reference -> table
    sim,              \* per What-If call: its locals and its position
    st_errors,        \* the messages passed to st.error, in order
    pareto,           \* make_plot7_pareto_analysis: its locals and result
    growth,           \* make_plot6_movers_and_shakers: its locals and result
    sales_per_month,  \* make_plot1_sales_per_month: the grouped table
    top_10_items,     \* make_plot2_top_10_items: the table it returns
    pandas            \* the pandas release the program runs under

vars == <<item_name, category, df, frames, sim, st_errors, pareto, growth,
          sales_per_month, top_10_items, pandas>>

(***************************************************************************)
(* Generic helpers.                                                        *)
(***************************************************************************)
Abs(x) == IF x < 0 THEN -x ELSE x

RECURSIVE Gcd(_, _)
Gcd(a, b) == IF b = 0 THEN Abs(a) ELSE Gcd(b, a % b)

Range(s) == {s[i] : i \in 1..Len(s)}

RECURSIVE SumSeq(_)
SumSeq(s) == IF s = <<>> THEN 0 ELSE Head(s) + SumSeq(Tail(s))

RECURSIVE Concat(_)
Concat(ss) == IF ss = <<>> THEN <<>> ELSE Head(ss) \o Concat(Tail(ss))

(***************************************************************************)
(* Numbers.  A float is modelled by the rational that exact arithmetic     *)
(* gives for it, a record [n, d] in lowest terms with d > 0; d = 0 holds   *)
(* the non-finite values: NaN is 0/0, +inf is 1/0 and -inf is -1/0.  The   *)
(* arithmetic on the non-finite values is that of IEEE doubles; a zero     *)
(* carries no sign.  The double the program holds is within a few units in *)
(* the last place of the rational.  Where that rounding decides what the   *)
(* program does, in the new count of line 162, which line 166 stores in an *)
(* integer column, it is computed: see PctFactor and new_count_of.         *)
(***************************************************************************)
NaN == [n |-> 0, d |-> 0]
PosInf == [n |-> 1, d |-> 0]
NegInf == [n |-> -1, d |-> 0]

IsFinite(x) == x.d # 0
IsNaN(x) == x = NaN

\* The rational num/den, den > 0, in lowest terms.
Rat(num, den) ==
    LET g == Gcd(num, den) IN [n |-> num \div g, d |-> den \div g]

R(k) == [n |-> k, d |-> 1]

\* -1, 0 or 1 as the value is negative, zero (or NaN) or positive.
Sign(x) == IF x.n > 0 THEN 1 ELSE IF x.n < 0 THEN -1 ELSE 0

\* a * b; the factors are cancelled crosswise before multiplying.  An
\* infinity times a value that is not zero is the infinity of the product's
\* sign; an infinity times zero is NaN.
RMul(a, b) ==
    IF IsNaN(a) \/ IsNaN(b) THEN NaN
    ELSE IF ~IsFinite(a) \/ ~IsFinite(b)
         THEN [n |-> Sign(a) * Sign(b), d |-> 0]
    ELSE LET g1 == Gcd(a.n, b.d)
             g2 == Gcd(b.n, a.d)
         IN  [n |-> (a.n \div g1) * (b.n \div g2),
              d |-> (a.d \div g2) * (b.d \div g1)]

\* a + b; an infinity absorbs every finite value, and the sum of the two
\* opposite infinities is NaN.
RAdd(a, b) ==
    IF IsNaN(a) \/ IsNaN(b) THEN NaN
    ELSE IF ~IsFinite(a) /\ ~IsFinite(b) THEN (IF a = b THEN a ELSE NaN)
    ELSE IF ~IsFinite(a) THEN a
    ELSE IF ~IsFinite(b) THEN b
    ELSE LET g == Gcd(a.d, b.d) IN
         Rat(a.n * (b.d \div g) + b.n * (a.d \div g), (a.d \div g) * b.d)

\* a / b as IEEE division gives it: x/0 is an infinity, 0/0 is NaN, an
\* infinity over a finite value is an infinity, a finite value over an
\* infinity is 0 and an infinity over an infinity is NaN.
RDiv(a, b) ==
    IF IsNaN(a) \/ IsNaN(b) THEN NaN
    ELSE IF ~IsFinite(a)
         THEN (IF ~IsFinite(b) THEN NaN
               ELSE IF b.n < 0 THEN [n |-> -a.n, d |-> 0] ELSE a)
    ELSE IF ~IsFinite(b) THEN R(0)
    ELSE IF b.n = 0
         THEN (IF a.n = 0 THEN NaN ELSE IF a.n > 0 THEN PosInf ELSE NegInf)
    ELSE IF b.n > 0 THEN RMul(a, [n |-> b.d, d |-> b.n])
    ELSE RMul(a, [n |-> -b.d, d |-> -b.n])

\* a < b and a >= b on floats: every comparison with NaN is false.
RLess(a, b) ==
    /\ ~IsNaN(a) /\ ~IsNaN(b)
    /\ IF IsFinite(a) /\ IsFinite(b) THEN a.n * b.d < b.n * a.d
       ELSE IF IsFinite(a) THEN b = PosInf
       ELSE IF IsFinite(b) THEN a = NegInf
       ELSE a = NegInf /\ b = PosInf

RGeq(a, b) == ~IsNaN(a) /\ ~IsNaN(b) /\ ~RLess(a, b)

\* Series.fillna(0) on one value.
fillna0(x) == IF IsNaN(x) THEN R(0) ELSE x

\* 1e-6, the epsilon added to the divisors.
EpsDen == 1000000
Eps == [n |-> 1, d |-> EpsDen]

(***************************************************************************)
(* 1. categorize_item                                                      *)
(***************************************************************************)
\* A character is its Unicode code point; a name is a sequence of characters.
\* The ASCII letters serve to write names and keywords down.
UpperChars == <<"A","B","C","D","E","F","G","H","I","J","K","L","M",
                "N","O","P","Q","R","S","T","U","V","W","X","Y","Z">>
LowerChars == <<"a","b","c","d","e","f","g","h","i","j","k","l","m",
                "n","o","p","q","r","s","t","u","v","w","x","y","z">>

\* The code point of a space or an ASCII letter, and the name a sequence of
\* them spells.
Ord(c) ==
    IF c = " " THEN 32
    ELSE IF \E i \in 1..Len(UpperChars) : UpperChars[i] = c
         THEN 64 + CHOOSE i \in 1..Len(UpperChars) : UpperChars[i] = c
    ELSE 96 + CHOOSE i \in 1..Len(LowerChars) : LowerChars[i] = c
Str(s) == [i \in 1..Len(s) |-> Ord(s[i])]

\* The characters of the names: Basic Latin and Latin-1 Supplement, the two
\* characters outside them whose lower case holds an ASCII letter, U+0130
\* (capital I with dot above) and U+212A (Kelvin sign), and U+0307 (combining
\* dot above), which the lower case of U+0130 holds.
NameChars == 0..255 \cup {304, 775, 8490}

\* The characters of NameChars that str.lower() changes: the capital letters
\* A-Z and U+00C0-U+00DE (but the multiplication sign U+00D7), U+0130 and
\* U+212A.
CapitalChars == (65..90) \cup ((192..222) \ {215}) \cup {304, 8490}

\* str.lower() on one character of NameChars, the characters it yields: a
\* capital letter of the two Latin blocks maps to the letter 32 further,
\* U+0130 to i followed by U+0307, U+212A to k; every other character is kept.
LowerChar(c) ==
    CASE c \in CapitalChars \ {304, 8490} -> <<c + 32>>
      [] c = 304 -> <<105, 775>>
      [] c = 8490 -> <<107>>
      [] c \in NameChars \ CapitalChars -> <<c>>

\* item_name.lower()
lower(s) == Concat([i \in 1..Len(s) |-> LowerChar(s[i])])

\* Python's `k in s` on strings: k occurs as a contiguous substring of s.
Contains(s, k) ==
    \E i \in 1..(Len(s) - Len(k) + 1) : SubSeq(s, i, i + Len(k) - 1) = k

\* The keyword lists, in the order of the source.
AppetizerKeywords ==
    << Str(<<"d","u","m","p","l","i","n","g">>),
       Str(<<"w","i","n","g","s">>), Str(<<"t","e","n","d","e","r","s">>),
       Str(<<"r","o","l","l">>), Str(<<"c","r","a","b">>),
       Str(<<"r","a","n","g","o","o","n">>), Str(<<"b","u","n">>),
       Str(<<"s","t","e","a","m">>) >>
NoodleKeywords ==
    << Str(<<"r","a","m","e","n">>), Str(<<"n","o","o","d","l","e">>) >>
RiceKeywords == << Str(<<"r","i","c","e">>) >>
ComboKeywords ==
    << Str(<<"c","o","m","b","o">>), Str(<<"s","p","e","c","i","a","l">>) >>
DrinkKeywords ==
    << Str(<<"t","e","a">>), Str(<<"l","e","m","o","n","a","d","e">>),
       Str(<<"s","o","d","a">>), Str(<<"c","o","k","e">>),
       Str(<<"p","e","p","s","i">>), Str(<<"s","t","a","r","r","y">>),
       Str(<<"c","r","u","s","h">>) >>

\* any(k in item_name_low for k in keywords)
AnyIn(keywords, item_name_low) ==
    \E i \in 1..Len(keywords) : Contains(item_name_low, keywords[i])

Categories == {"Appetizers", "Noodle Dishes", "Rice Dishes", "Combos/Specials",
               "Drinks", "Other Entrees"}

\* Mutant: the drink keywords are tested before the appetizer keywords.
categorize_item_DrinksFirst(name) ==
    LET item_name_low == lower(name) IN
    IF AnyIn(DrinkKeywords, item_name_low) THEN "Drinks"
    ELSE IF AnyIn(AppetizerKeywords, item_name_low) THEN "Appetizers"
    ELSE IF AnyIn(NoodleKeywords, item_name_low) THEN "Noodle Dishes"
    ELSE IF AnyIn(RiceKeywords, item_name_low) THEN "Rice Dishes"
    ELSE IF AnyIn(ComboKeywords, item_name_low) THEN "Combos/Specials"
    ELSE "Other Entrees"

categorize_item(name) ==
    LET item_name_low == lower(name) IN
    IF AnyIn(AppetizerKeywords, item_name_low) THEN "Appetizers"
    ELSE IF AnyIn(NoodleKeywords, item_name_low) THEN "Noodle Dishes"
    ELSE IF AnyIn(RiceKeywords, item_name_low) THEN "Rice Dishes"
    ELSE IF AnyIn(ComboKeywords, item_name_low) THEN "Combos/Specials"
    ELSE IF AnyIn(DrinkKeywords, item_name_low) THEN "Drinks"
    ELSE "Other Entrees"

\* The words item names are built from: keywords in several letter cases,
\* words that hold a keyword inside them ("Steak" holds "tea", "Price" holds
\* "rice"), words that hold none, and two words that hold a keyword only once
\* lower-cased: "CO", the Kelvin sign, "E", and "PEPS" with U+0130.
NameWords ==
    { Str(<<"S","t","e","a","m","e","d">>),
      Str(<<"D","u","m","p","l","i","n","g","s">>),
      Str(<<"T","E","A">>), Str(<<"t","e","a">>),
      Str(<<"R","a","m","e","n">>), Str(<<"R","i","c","e">>),
      Str(<<"C","O","M","B","O">>), Str(<<"B","e","e","f">>),
      Str(<<"S","o","d","a">>), Str(<<"S","p","e","c","i","a","l">>),
      Str(<<"S","t","e","a","k">>), Str(<<"P","r","i","c","e">>),
      Str(<<"N","o","o","d","l","e">>), Str(<<"P","o","r","k">>),
      Str(<<"S","T","E","A","M">>), Str(<<"B","u","n">>),
      Str(<<"C","O">>) \o <<8490>> \o Str(<<"E">>),
      Str(<<"P","E","P","S">>) \o <<304>> }

\* The largest number of words in a name.
MaxWords == 2

RECURSIVE NamesOfWords(_)
NamesOfWords(n) ==
    IF n = 1 THEN NameWords
    ELSE LET shorter == NamesOfWords(n - 1) IN
         shorter \cup {s \o Str(<<" ">>) \o w :
                           s \in shorter, w \in NameWords}

ItemNames == NamesOfWords(MaxWords)

\* The source pins no pandas release.  The releases differ, for this program,
\* in two defaults that 3.0 changed: the releases before 3.0 ("2.x") and the
\* releases from 3.0 on ("3.x").
PandasReleases == {"2.x", "3.x"}

NoPareto == [state |-> "idle"]
NoTopItems == [state |-> "idle"]
NoGrowth == [state |-> "idle"]
NoSalesPerMonth == [state |-> "idle"]

InitClassify ==
    /\ item_name \in ItemNames
    /\ category = "unset"
    /\ df = <<>>
    /\ frames = <<>>
    /\ sim = <<>>
    /\ st_errors = <<>>
    /\ pareto = NoPareto
    /\ growth = NoGrowth
    /\ sales_per_month = NoSalesPerMonth
    /\ top_10_items = NoTopItems
    /\ pandas \in PandasReleases

\* df['Item Name'].apply(categorize_item), one item.
Categorize ==
    /\ category = "unset"
    /\ category' = categorize_item(item_name)
    /\ UNCHANGED <<item_name, df, frames, sim, st_errors, pareto, growth,
                   sales_per_month, top_10_items, pandas>>

NextClassify == Categorize

SpecClassify == InitClassify /\ [][NextClassify]_vars

\* The category the ordered rule groups give a name: the category of the first
\* group, in the order of the specification, one of whose keywords occurs in
\* the lower-cased name, and the default when there is none.
RuleGroups ==
    << [cat |-> "Appetizers", kws |-> AppetizerKeywords],
       [cat |-> "Noodle Dishes", kws |-> NoodleKeywords],
       [cat |-> "Rice Dishes", kws |-> RiceKeywords],
       [cat |-> "Combos/Specials", kws |-> ComboKeywords],
       [cat |-> "Drinks", kws |-> DrinkKeywords] >>

GroupMatches(g, name) ==
    LET low == lower(name) IN
    \E i \in 1..Len(RuleGroups[g].kws) :
        \E j \in 1..(Len(low) - Len(RuleGroups[g].kws[i]) + 1) :
            \A k \in 1..Len(RuleGroups[g].kws[i]) :
                low[j + k - 1] = RuleGroups[g].kws[i][k]

\* C1: categorize_item returns exactly one of the six categories: the category
\* of the first rule group (Appetizers, Noodle Dishes, Rice Dishes,
\* Combos/Specials, Drinks) with a keyword that is a case-insensitive substring
\* of the name, 'Other Entrees' when no group matches; a name containing
\* 'steam' is Appetizers and never Drinks.
C1_FirstMatchWins ==
    category # "unset" =>
        /\ category \in Categories
        /\ \A g \in 1..Len(RuleGroups) :
              (GroupMatches(g, item_name)
                 /\ \A h \in 1..(g - 1) : ~GroupMatches(h, item_name))
              => category = RuleGroups[g].cat
        /\ (\A g \in 1..Len(RuleGroups) : ~GroupMatches(g, item_name))
              => category = "Other Entrees"
        /\ Contains(lower(item_name), Str(<<"s","t","e","a","m">>))
              => category = "Appetizers"

\* "Steamed Dumplings" has been classified, and classified Appetizers.
C1_Witness ==
    /\ item_name = Str(<<"S","t","e","a","m","e","d">>) \o Str(<<" ">>)
                      \o Str(<<"D","u","m","p","l","i","n","g","s">>)
    /\ Contains(lower(item_name), Str(<<"t","e","a">>))
    /\ category = "Appetizers"

(***************************************************************************)
(* 2. The dataset, get_item_summary and make_plot3_what_if_quadrant        *)
(*                                                                         *)
(* A row of the dataset is [Item_Name, Month, Amount, Count].  Outside the *)
(* classifier an item name is a number; names sort as their numbers do.    *)
(* Amounts are whole currency units.                                       *)
(***************************************************************************)
month_order == <<"May", "June", "July", "August", "September", "October">>

\* The items of a set, ascending: the order groupby gives its keys.
RECURSIVE SortedItems(_)
SortedItems(S) ==
    IF S = {} THEN <<>>
    ELSE LET m == CHOOSE x \in S : \A y \in S : x <= y
         IN  <<m>> \o SortedItems(S \ {m})

\* df.groupby('Item Name')['Amount'].sum() and ['Count'].sum(), one key.
SumAmount(d, item) ==
    LET rows == SelectSeq(d, LAMBDA r : r.Item_Name = item)
    IN  SumSeq([i \in 1..Len(rows) |-> rows[i].Amount])
SumCount(d, item) ==
    LET rows == SelectSeq(d, LAMBDA r : r.Item_Name = item)
    IN  SumSeq([i \in 1..Len(rows) |-> rows[i].Count])

\* The keys of df.groupby('Item Name').
ItemsIn(d) == {d[i].Item_Name : i \in 1..Len(d)}

\* Lines 87-93: one row per item, the items ascending, with the sums of Amount
\* and Count and Avg_Price = Total_Amount / (Total_Count + 1e-6), NaN filled
\* with 0.
get_item_summary(d) ==
    LET keys == SortedItems(ItemsIn(d)) IN
    [k \in 1..Len(keys) |->
        LET amt == SumAmount(d, keys[k])
            cnt == SumCount(d, keys[k])
        IN  [Item_Name |-> keys[k],
             Total_Amount |-> R(amt),
             Total_Count |-> R(cnt),
             Avg_Price |-> fillna0(RDiv(R(amt), RAdd(R(cnt), Eps)))]]

\* Frame references: the item summary main holds, and one per What-If call.
BaseRef == 0
Sims == {1, 2}
\* A frame reference that holds no frame yet, and a frame with rows t.
NoFrame == [live |-> FALSE, rows |-> <<>>]
Frame(t) == [live |-> TRUE, rows |-> t]

\* Mutant: copy() hands back the frame it was given instead of a new one.
copy_Alias(src, fresh) == src

\* DataFrame.copy(): the reference of the new frame `fresh`, which receives the
\* rows of `src`.
copy(src, fresh) == fresh

\* The rows of table t whose Item Name is `item`.
RowsOf(t, item) == SelectSeq(t, LAMBDA r : r.Item_Name = item)
RowsNot(t, item) == SelectSeq(t, LAMBDA r : r.Item_Name # item)

\* A float that an int64 column holds without loss: a whole number.  A float
\* with a field dev is a double next to the rational [n, d], not equal to it,
\* and is not whole (see new_count_of).
IsWhole(v) == IsFinite(v) /\ v.d = 1 /\ "dev" \notin DOMAIN v

\* df.loc[df['Item Name'] == item, 'Total_Count'] = v.  Total_Count is an int64
\* column (the sum of the Count column of line 70).  A value that is not a
\* whole number does not fit it: the releases before 3.0 store it by turning
\* the column into floats, under the FutureWarning that line 11 silences; the
\* releases from 3.0 on raise TypeError and leave the table as it was.
SetCount(release, t, item, v) ==
    IF release = "3.x" /\ ~IsWhole(v) /\ RowsOf(t, item) # <<>>
    THEN [raised |-> TRUE, rows |-> t]
    ELSE [raised |-> FALSE,
          rows |-> [i \in 1..Len(t) |->
                      IF t[i].Item_Name = item
                      THEN [t[i] EXCEPT !.Total_Count = v] ELSE t[i]]]

\* df.loc[df['Item Name'] == item, col] = v on the two float columns.

SetAmount(t, item, v) ==
    [i \in 1..Len(t) |->
        IF t[i].Item_Name = item THEN [t[i] EXCEPT !.Total_Amount = v] ELSE t[i]]
SetPrice(t, item, v) ==
    [i \in 1..Len(t) |->
        IF t[i].Item_Name = item THEN [t[i] EXCEPT !.Avg_Price = v] ELSE t[i]]

\* The values of a sequence of floats, ascending.
RECURSIVE InsertSorted(_, _)
InsertSorted(s, x) ==
    IF s = <<>> THEN <<x>>
    ELSE IF RLess(x, Head(s)) THEN <<x>> \o s
    ELSE <<Head(s)>> \o InsertSorted(Tail(s), x)

RECURSIVE SortFloats(_)
SortFloats(s) ==
    IF s = <<>> THEN <<>> ELSE InsertSorted(SortFloats(Tail(s)), Head(s))

\* Series.median(): the NaN values are left out (skipna=True); of the others
\* the middle value, or the mean of the two middle values; NaN when there is
\* none.
median(s) ==
    LET v == SortFloats(SelectSeq(s, LAMBDA x : ~IsNaN(x)))
        k == Len(v)
    IN  IF k = 0 THEN NaN
        ELSE IF k % 2 = 1 THEN v[(k + 1) \div 2]
        ELSE RMul(RAdd(v[k \div 2], v[k \div 2 + 1]), Rat(1, 2))

Column_Total_Amount(t) == [i \in 1..Len(t) |-> t[i].Total_Amount]
Column_Total_Count(t) == [i \in 1..Len(t) |-> t[i].Total_Count]

\* 2^e for e >= 0, the whole part of log2(x) for x >= 1, and whether d is a
\* power of two.
RECURSIVE Pow2(_)
Pow2(e) == IF e = 0 THEN 1 ELSE 2 * Pow2(e - 1)
RECURSIVE Log2(_)
Log2(x) == IF x < 2 THEN 0 ELSE 1 + Log2(x \div 2)
RECURSIVE IsPow2(_)
IsPow2(d) == d = 1 \/ (d % 2 = 0 /\ IsPow2(d \div 2))

\* The remainder of a * 2^bits by 100, 16 bits at a time.
RECURSIVE Rem100(_, _)
Rem100(a, bits) ==
    IF bits >= 16 THEN Rem100((a * 65536) % 100, bits - 16)
    ELSE (a * Pow2(bits)) % 100

\* The double a / 100 for 0 <= a <= 100: the quotient rounded to 53 bits, to
\* nearest and to even on a tie.  For 0 < a < 100 the first bit of a / 100
\* that is 1 is bit k = FirstBit(a) (a / 100 lies between 2^-k and 2^-(k-1)),
\* and the 53 bits kept are the bits k to k + 52.  With r44 the remainder of
\* the division after bit k + 44, the next 8 bits are the whole part `bits`
\* of 256 * r44 / 100 and r is the remainder after them; the last bit goes
\* up by one when r is over half of 100.  The double is
\* a / 100 + rho / (100 * 2^(k + 52)), and low holds the last 8 of its 53
\* bits.  k = 0 tells the quotients 0 and 1.
FirstBit(a) ==
    CHOOSE k \in 1..7 : a * Pow2(k) >= 100 /\ a * Pow2(k - 1) < 100

RoundQuotient(k, bits, r) ==
    LET up == IF 2 * r > 100 \/ (2 * r = 100 /\ bits % 2 = 1) THEN 1 ELSE 0
    IN  [k |-> k, low |-> (bits + up) % 256, rho |-> 100 * up - r]

LastBits(k, r44) == RoundQuotient(k, (256 * r44) \div 100, (256 * r44) % 100)

DivideBy100(a) ==
    IF a % 100 = 0 THEN [k |-> 0, low |-> 0, rho |-> 0]
    ELSE LastBits(FirstBit(a), Rem100(a, FirstBit(a) + 44))

\* The rounding of the double 1 + pct / 100, for -50 <= pct <= 100 (the range
\* of the sliders, lines 511-519), from the double q = |pct| / 100.  The sum
\* 1 + q lies between 1 and 2 and keeps the bits of q down to 2^-52: the last
\* k bits of q are rounded away; the difference 1 - q lies between 1/2 and 1
\* and keeps one bit more.  g is the weight of the last bit kept, in units of
\* the last bit of q, x the last bits of the sum down from the last bit
\* kept, lo the bits rounded away and par the last bit kept.  The double is
\* (100 + pct) / 100 + rho / (100 * 2^(k + 52)).
RoundSum(pct, q, g, x) ==
    LET lo == x % g
        par == x \div g
        up == IF 2 * lo > g \/ (2 * lo = g /\ par = 1) THEN 1 ELSE 0
        adj == 100 * (up * g - lo)
    IN  [k |-> q.k, rho |-> IF pct > 0 THEN q.rho + adj ELSE adj - q.rho]

SumBits(pct, q, g) ==
    RoundSum(pct, q, g, (IF pct > 0 THEN q.low ELSE 256 - q.low) % (2 * g))

AddToOne(pct, q) ==
    IF q.k = 0 THEN [k |-> 0, rho |-> 0]
    ELSE SumBits(pct, q, IF pct > 0 THEN Pow2(q.k) ELSE Pow2(q.k - 1))

PctRounding(pct) == AddToOne(pct, DivideBy100(Abs(pct)))

\* 1 + pct / 100: the rational [n, d] = (100 + pct) / 100 with the rounding
\* [k, rho] of the double, which is n / d + rho / (100 * 2^(k + 52)).
WithRounding(nominal, rounding) ==
    [n |-> nominal.n, d |-> nominal.d, k |-> rounding.k, rho |-> rounding.rho]

PctFactor(pct) == WithRounding(Rat(100 + pct, 100), PctRounding(pct))

\* The double product of the whole count c >= 0 and the double `factor`,
\* whose exact product with the rational of the factor is `nominal`.  The
\* product is rounded to 53 bits.  When nominal is a double itself (its
\* denominator is a power of two), the result is that double if the error
\* c * rho / (100 * 2^(k + 52)) of the product is at most half a unit in its
\* last place, 2^(E - 53) with E the whole part `log` of its log2 (one less
\* below a power of two), and otherwise a double next to it, above (dev = 1)
\* or below (dev = -1): 50 * 1.1 and 100 * 0.55 are 55.00000000000001.  When
\* nominal is no double, the result is a double near it, which is never a
\* whole number, and the rational stands for it.
NearestDouble(c, factor, nominal, log) ==
    LET E == IF nominal = R(Pow2(log)) /\ factor.rho < 0 THEN log - 1 ELSE log
    IN  IF 2 * c * Abs(factor.rho) <= 100 * Pow2(factor.k + E)
        THEN nominal
        ELSE [n |-> nominal.n, d |-> nominal.d,
              dev |-> IF factor.rho > 0 THEN 1 ELSE -1]

RoundedProduct(c, factor, nominal) ==
    IF factor.rho = 0 \/ c = 0 \/ ~IsPow2(nominal.d) THEN nominal
    ELSE NearestDouble(c, factor, nominal, Log2(nominal.n \div nominal.d))

\* Line 162: item_row['Total_Count'] * (1 + count_change_pct / 100), for a
\* whole count >= 0.
new_count_of(Total_Count, pct) ==
    RoundedProduct(Total_Count.n, PctFactor(pct),
                   RMul(Total_Count, PctFactor(pct)))

\* go.Figure(): a figure with no trace and no shape.
EmptyFigure == [traces |-> <<>>, shapes |-> <<>>]

\* The figure of a completed simulation over table t: the trace of the other
\* items, the trace of the What-If item, and the two median lines.
WhatIfFigure(t, item, median_amount, median_count) ==
    [traces |-> << [name |-> "Other Items", rows |-> RowsNot(t, item)],
                   [name |-> "WHAT-IF", rows |-> RowsOf(t, item)] >>,
     shapes |-> << median_count, median_amount >>]

\* The bounds of the What-If datasets: the item names, the number of rows,
\* the amount of a row of each item, and the counts a row of each item may
\* hold: item 1 sells one at a time (a row of count 0 is a sale whose count
\* cell did not parse, line 70), item 2 by lots of 50.
WIItems == {1, 2}
WIMaxRows == 2
WIAmounts == <<10, 1>>
WICounts == << {0, 1}, {50} >>
\* The slider settings tried, <<count_change_pct, price_change_pct>> (each
\* slider runs from -50 to 100 by steps of 5): no change, a promotion, and a
\* rise of the count whose factor 1.1 is no exact double.
SliderSettings == {<<0, 0>>, <<50, -10>>, <<10, 0>>}

WIRows ==
    UNION {[Item_Name : {i}, Month : {"May"}, Amount : {WIAmounts[i]},
            Count : WICounts[i]] : i \in WIItems}

WIDatasets == UNION {[1..k -> WIRows] : k \in 0..WIMaxRows}

IdleSim == [pc |-> "idle", item_to_change |-> 0, count_change_pct |-> 0,
            price_change_pct |-> 0, df_what_if |-> BaseRef,
            new_count |-> NaN, new_price |-> NaN, new_amount |-> NaN,
            outcome |-> "none", exception |-> "none", fig |-> EmptyFigure]

InitWhatIf ==
    /\ item_name = <<>>
    /\ category = "unset"
    /\ df \in WIDatasets
    /\ frames = [r \in {BaseRef} \cup Sims |-> NoFrame]
    /\ sim = [p \in Sims |-> IdleSim]
    /\ st_errors = <<>>
    /\ pareto = NoPareto
    /\ growth = NoGrowth
    /\ sales_per_month = NoSalesPerMonth
    /\ top_10_items = NoTopItems
    /\ pandas \in PandasReleases

\* main: item_summary_df = get_item_summary(df)
GetItemSummary ==
    /\ ~frames[BaseRef].live
    /\ frames' = [frames EXCEPT ![BaseRef] = Frame(get_item_summary(df))]
    /\ UNCHANGED <<item_name, category, df, sim, st_errors, pareto, growth,
                   sales_per_month, top_10_items, pandas>>

\* The call, and line 153: df_what_if = item_summary_df.copy()
WhatIfCopy(p, item, cpct, ppct) ==
    /\ sim[p].pc = "idle"
    /\ frames[BaseRef].live
    /\ LET ref == copy(BaseRef, p) IN
       /\ frames' = [frames EXCEPT ![ref] = frames[BaseRef]]
       /\ sim' = [sim EXCEPT ![p] =
                    [@ EXCEPT !.pc = "lookup", !.item_to_change = item,
                              !.count_change_pct = cpct,
                              !.price_change_pct = ppct,
                              !.df_what_if = ref]]
    /\ UNCHANGED <<item_name, category, df, st_errors, pareto, growth,
                   sales_per_month, top_10_items, pandas>>

\* Lines 155-164: the row of the item; without one, st.error and the empty
\* figure is returned; with one, the three new values.
WhatIfLookup(p) ==
    /\ sim[p].pc = "lookup"
    /\ LET t == frames[sim[p].df_what_if].rows
           found == RowsOf(t, sim[p].item_to_change)
       IN  IF found = <<>>
           THEN /\ st_errors' = Append(st_errors, sim[p].item_to_change)
                /\ sim' = [sim EXCEPT ![p] =
                             [@ EXCEPT !.pc = "done", !.outcome = "returned",
                                       !.fig = EmptyFigure]]
           ELSE LET item_row == found[1]
                    nc == new_count_of(item_row.Total_Count,
                                       sim[p].count_change_pct)
                    np == RMul(item_row.Avg_Price,
                               PctFactor(sim[p].price_change_pct))
                IN  /\ sim' = [sim EXCEPT ![p] =
                                 [@ EXCEPT !.pc = "set_count", !.new_count = nc,
                                           !.new_price = np,
                                           !.new_amount = RMul(nc, np)]]
                    /\ UNCHANGED st_errors
    /\ UNCHANGED <<item_name, category, df, frames, pareto, growth,
                   sales_per_month, top_10_items, pandas>>

\* Line 166.  When the assignment raises, nothing catches the TypeError: the
\* call ends there and returns no figure.
WhatIfSetCount(p) ==
    /\ sim[p].pc = "set_count"
    /\ LET set == SetCount(pandas, frames[sim[p].df_what_if].rows,
                           sim[p].item_to_change, sim[p].new_count)
       IN  IF set.raised
           THEN /\ sim' = [sim EXCEPT ![p] =
                             [@ EXCEPT !.pc = "done", !.outcome = "raised",
                                       !.exception = "TypeError"]]
                /\ UNCHANGED frames
           ELSE /\ frames' = [frames EXCEPT ![sim[p].df_what_if].rows =
                                 set.rows]
                /\ sim' = [sim EXCEPT ![p].pc = "set_amount"]
    /\ UNCHANGED <<item_name, category, df, st_errors, pareto, growth,
                   sales_per_month, top_10_items, pandas>>

\* Line 167
WhatIfSetAmount(p) ==
    /\ sim[p].pc = "set_amount"
    /\ frames' = [frames EXCEPT ![sim[p].df_what_if].rows =
                    SetAmount(@, sim[p].item_to_change, sim[p].new_amount)]
    /\ sim' = [sim EXCEPT ![p].pc = "set_price"]
    /\ UNCHANGED <<item_name, category, df, st_errors, pareto, growth,
                   sales_per_month, top_10_items, pandas>>

\* Line 168
WhatIfSetPrice(p) ==
    /\ sim[p].pc = "set_price"
    /\ frames' = [frames EXCEPT ![sim[p].df_what_if].rows =
                    SetPrice(@, sim[p].item_to_change, sim[p].new_price)]
    /\ sim' = [sim EXCEPT ![p].pc = "medians"]
    /\ UNCHANGED <<item_name, category, df, st_errors, pareto, growth,
                   sales_per_month, top_10_items, pandas>>

\* Lines 170-236: the two medians of the modified table, and the figure built
\* from the modified table, which is returned.
WhatIfFinish(p) ==
    /\ sim[p].pc = "medians"
    /\ LET t == frames[sim[p].df_what_if].rows
           median_amount == median(Column_Total_Amount(t))
           median_count == median(Column_Total_Count(t))
       IN  sim' = [sim EXCEPT ![p] =
                     [@ EXCEPT !.pc = "done", !.outcome = "returned",
                               !.fig = WhatIfFigure(t, sim[p].item_to_change,
                                                    median_amount, median_count)]]
    /\ UNCHANGED <<item_name, category, df, frames, st_errors, pareto, growth,
                   sales_per_month, top_10_items, pandas>>

\* The items a call may name: the items of the datasets and one more, which no
\* summary holds.
WITargets == WIItems \cup {3}

NextWhatIf ==
    \/ GetItemSummary
    \/ \E p \in Sims, item \in WITargets, pcts \in SliderSettings :
          WhatIfCopy(p, item, pcts[1], pcts[2])
    \/ \E p \in Sims : WhatIfLookup(p)
    \/ \E p \in Sims : WhatIfSetCount(p)
    \/ \E p \in Sims : WhatIfSetAmount(p)
    \/ \E p \in Sims : WhatIfSetPrice(p)
    \/ \E p \in Sims : WhatIfFinish(p)

SpecWhatIf == InitWhatIf /\ [][NextWhatIf]_vars

\* The summary main computed from the dataset, which every call is handed.
BaseSummary == get_item_summary(df)

HasItem(t, item) == \E i \in 1..Len(t) : t[i].Item_Name = item

\* The call of p has returned and its item is in the summary.
SimDoneFound(p) ==
    /\ sim[p].pc = "done"
    /\ HasItem(BaseSummary, sim[p].item_to_change)

\* C2 (as claimed): for a target item present in the summary, the simulation
\* replaces that item's row in its own copy with new_count = count * (1 +
\* count_change_pct/100), new_price = avg_price * (1 + price_change_pct/100)
\* and new_amount = new_count * new_price; every other row of the copy is as
\* in the summary, and the summary handed in is unchanged after the call.
C2_TargetRowReplaced ==
    \A p \in Sims : SimDoneFound(p) =>
        LET t == frames[sim[p].df_what_if].rows
            c == Rat(100 + sim[p].count_change_pct, 100)
            q == Rat(100 + sim[p].price_change_pct, 100)
        IN  /\ Len(t) = Len(BaseSummary)
            /\ \A i \in 1..Len(t) :
                  IF BaseSummary[i].Item_Name = sim[p].item_to_change
                  THEN /\ t[i].Item_Name = BaseSummary[i].Item_Name
                       /\ t[i].Total_Count = RMul(BaseSummary[i].Total_Count, c)
                       /\ t[i].Avg_Price = RMul(BaseSummary[i].Avg_Price, q)
                       /\ t[i].Total_Amount =
                             RMul(t[i].Total_Count, t[i].Avg_Price)
                  ELSE t[i] = BaseSummary[i]
            /\ frames[BaseRef] = Frame(BaseSummary)

\* Under a release from 3.0 on, a call with +50% count has ended for an item
\* of count 1: line 166 raised TypeError on the count 3/2, no figure was
\* returned and the row of the item in the copy is still the base row.
C2_CountNotStored ==
    \E p \in Sims :
        /\ SimDoneFound(p)
        /\ pandas = "3.x"
        /\ sim[p].count_change_pct = 50
        /\ sim[p].new_count = Rat(3, 2)
        /\ sim[p].outcome = "raised" /\ sim[p].exception = "TypeError"
        /\ sim[p].fig = EmptyFigure
        /\ frames[sim[p].df_what_if].rows = BaseSummary
        /\ \E i \in 1..Len(BaseSummary) :
              /\ BaseSummary[i].Item_Name = sim[p].item_to_change
              /\ BaseSummary[i].Total_Count = R(1)

\* C3 (as claimed): a call whose target item is not in the summary ends by
\* failing with a NotFound condition, not by returning a figure to the caller.
C3_NotFoundFails ==
    \A p \in Sims :
        (sim[p].pc = "done" /\ ~HasItem(BaseSummary, sim[p].item_to_change))
            => sim[p].outcome = "raised"

\* The call of p has returned, its item is in the summary and both its
\* sliders were at 0.
ZeroChangeDone(p) ==
    /\ SimDoneFound(p)
    /\ sim[p].count_change_pct = 0
    /\ sim[p].price_change_pct = 0

\* C12 (as claimed): a simulation with count_change_pct = 0 and
\* price_change_pct = 0 is the identity on the item summary: the target row's
\* Total_Count and Total_Amount in the result equal their base values, also
\* for an item whose Total_Count is 0 and whose Total_Amount is positive, and
\* the two median lines of the result are the medians of the base summary.
C12_ZeroChangeIsIdentity ==
    \A p \in Sims : ZeroChangeDone(p) =>
        LET t == frames[sim[p].df_what_if].rows IN
        /\ Len(t) = Len(BaseSummary)
        /\ \A i \in 1..Len(t) :
              BaseSummary[i].Item_Name = sim[p].item_to_change =>
                 /\ t[i].Total_Count = BaseSummary[i].Total_Count
                 /\ t[i].Total_Amount = BaseSummary[i].Total_Amount
        /\ sim[p].fig.shapes =
              << median(Column_Total_Count(BaseSummary)),
                 median(Column_Total_Amount(BaseSummary)) >>

\* A simulation with both sliders at 0 has returned for the only item of the
\* summary, whose Total_Count is 0 and whose Total_Amount is positive: its
\* count is kept, its amount and the amount median have become 0.
C12_ZeroCountAmountLost ==
    \E p \in Sims :
        /\ ZeroChangeDone(p)
        /\ Len(BaseSummary) = 1
        /\ BaseSummary[1].Total_Count = R(0)
        /\ RLess(R(0), BaseSummary[1].Total_Amount)
        /\ frames[sim[p].df_what_if].rows[1].Total_Count = R(0)
        /\ frames[sim[p].df_what_if].rows[1].Total_Amount = R(0)
        /\ sim[p].fig.shapes = << R(0), R(0) >>

\* make_plot3_what_if_quadrant run alone on table t under a pandas release:
\* how the call ends, and the figure it returns.
what_if_alone(release, t, item, cpct, ppct) ==
    LET found == RowsOf(t, item) IN
    IF found = <<>>
    THEN [outcome |-> "returned", exception |-> "none", fig |-> EmptyFigure]
    ELSE LET nc == new_count_of(found[1].Total_Count, cpct)
             np == RMul(found[1].Avg_Price, PctFactor(ppct))
             set == SetCount(release, t, item, nc)
             t2 == SetAmount(set.rows, item, RMul(nc, np))
             t3 == SetPrice(t2, item, np)
         IN  IF set.raised
             THEN [outcome |-> "raised", exception |-> "TypeError",
                   fig |-> EmptyFigure]
             ELSE [outcome |-> "returned", exception |-> "none",
                   fig |-> WhatIfFigure(t3, item,
                                        median(Column_Total_Amount(t3)),
                                        median(Column_Total_Count(t3)))]

\* C4: under every interleaving of the calls, a call ends as it ends when run
\* alone on the base summary, with the same figure; while a call
\* runs, the rows of its table that belong to other items are the base
\* summary's rows; and the shared base summary is the same in every state.
C4_SimulationsIsolated ==
    /\ frames[BaseRef] \in {NoFrame, Frame(BaseSummary)}
    /\ \A p \in Sims :
          /\ sim[p].pc = "done" =>
                [outcome |-> sim[p].outcome, exception |-> sim[p].exception,
                 fig |-> sim[p].fig]
                   = what_if_alone(pandas, BaseSummary, sim[p].item_to_change,
                                   sim[p].count_change_pct,
                                   sim[p].price_change_pct)
          /\ sim[p].pc \notin {"idle", "done"} =>
                RowsNot(frames[sim[p].df_what_if].rows, sim[p].item_to_change)
                   = RowsNot(BaseSummary, sim[p].item_to_change)

\* Two calls with different inputs have both modified their tables, one of them
\* while the other was between its writes, and one has returned: the call
\* that raised the count 50 by 10%, whose table holds the count
\* 55.00000000000001.
C4_Witness ==
    /\ sim[1].pc = "done" /\ sim[1].outcome = "returned"
    /\ sim[2].pc = "set_amount"
    /\ sim[1].item_to_change # sim[2].item_to_change
    /\ sim[1].count_change_pct = 10 /\ sim[2].count_change_pct = 50
    /\ sim[1].new_count = [n |-> 55, d |-> 1, dev |-> 1]
    /\ HasItem(BaseSummary, sim[1].item_to_change)
    /\ HasItem(BaseSummary, sim[2].item_to_change)
    /\ frames[1] # frames[2]
    /\ frames[1].rows # BaseSummary /\ frames[2].rows # BaseSummary

(***************************************************************************)
(* 3. make_plot7_pareto_analysis                                           *)
(***************************************************************************)
N_TOP_ITEMS == 20

\* The Item Name of the synthetic row 'All Other Items'; no item has this name.
AllOtherItems == 0

\* df.groupby('Item Name')['Amount'].sum().reset_index(): one row per item,
\* the items ascending, the index labels 0, 1, 2, ...
item_sales_of(d) ==
    LET keys == SortedItems(ItemsIn(d)) IN
    [k \in 1..Len(keys) |->
        [index |-> k - 1, Item_Name |-> keys[k], Amount |-> SumAmount(d, keys[k])]]

\* sort_values(by='Amount', ascending=False): the rows by descending Amount,
\* each row keeping its index label.  The default sort is not stable, so rows
\* of equal Amount may come out in any order: every such order is a result.
RECURSIVE DescOrders(_)
DescOrders(S) ==
    IF S = {} THEN {<<>>}
    ELSE UNION { {<<r>> \o rest : rest \in DescOrders(S \ {r})} :
                 r \in {x \in S : \A y \in S : y.Amount <= x.Amount} }

sort_values_desc(t) == DescOrders(Range(t))

\* The Amount column's sum.
RECURSIVE SumAmounts(_)
SumAmounts(t) == IF t = <<>> THEN 0 ELSE Head(t).Amount + SumAmounts(Tail(t))

\* Lines 343-349: past N_TOP_ITEMS rows, the first N_TOP_ITEMS rows and one row
\* 'All Other Items' with the sum of the rest, the index reset to 0, 1, ...;
\* otherwise the sorted table itself, with the labels it has.
collapse_tail(sorted) ==
    IF Len(sorted) > N_TOP_ITEMS
    THEN [k \in 1..(N_TOP_ITEMS + 1) |->
            IF k <= N_TOP_ITEMS
            THEN [sorted[k] EXCEPT !.index = k - 1]
            ELSE [index |-> k - 1, Item_Name |-> AllOtherItems,
                  Amount |-> SumAmounts(SubSeq(sorted, N_TOP_ITEMS + 1,
                                               Len(sorted)))]]
    ELSE sorted

\* Mutant: the total leaves the 'All Other Items' row out.
total_revenue_of_TopOnly(pareto_df) ==
    SumAmounts(SelectSeq(pareto_df, LAMBDA r : r.Item_Name # AllOtherItems))

\* Line 351: total_revenue = pareto_df['Amount'].sum()
total_revenue_of(pareto_df) == SumAmounts(pareto_df)

\* Lines 352-353: the running sum and its percentage of the total.
with_cumulative(pareto_df) ==
    LET total_revenue == total_revenue_of(pareto_df) IN
    [k \in 1..Len(pareto_df) |->
        LET cum == SumAmounts(SubSeq(pareto_df, 1, k)) IN
        [index |-> pareto_df[k].index,
         Item_Name |-> pareto_df[k].Item_Name,
         Amount |-> pareto_df[k].Amount,
         Cumulative_Amount |-> cum,
         Cumulative_Pct |-> RDiv(RMul(R(100), R(cum)), R(total_revenue))]]

\* Mutant: >= written as "not <", which NaN satisfies.
reaches_80_NotLess(row) == ~RLess(row.Cumulative_Pct, R(80))

\* pareto_df['Cumulative_Pct'] >= 80, one row.
reaches_80(row) == RGeq(row.Cumulative_Pct, R(80))

\* Lines 357-364: the summary.  Of the rows that reach 80 the first one's index
\* label, plus one, is reported with its percentage of total_items; without
\* such a row the summary stays the "incomplete" one.  (index[0] of a non-empty
\* selection cannot raise, so the except branch of line 363 is never taken.)
pareto_summary_of(pareto_df, total_items) ==
    LET crossing == SelectSeq(pareto_df, reaches_80) IN
    IF crossing = <<>>
    THEN [kind |-> "incomplete (insufficient item diversity)",
          num_items_for_80 |-> 0, pct_items |-> NaN]
    ELSE LET num_items_for_80 == crossing[1].index + 1 IN
         [kind |-> "top items drive 80%",
          num_items_for_80 |-> num_items_for_80,
          pct_items |-> RDiv(RMul(R(100), R(num_items_for_80)), R(total_items))]

\* The bounds of the Pareto datasets.  Small datasets: at most PMaxRows rows
\* over the items 1..3 with the amounts PAmounts.  Catalogs: 1..PMaxItems
\* items, one row each, the amounts base, base + step, base + 2*step, ...,
\* rising or falling with the item name.
PMaxRows == 3
PMaxItems == 28
PAmounts == {0, 10, 90}
PBases == {0, 100}
PSteps == {1, 50}

PSmallRows == [Item_Name : 1..3, Month : {"May"}, Amount : PAmounts, Count : {1}]
PSmallDatasets == UNION {[1..k -> PSmallRows] : k \in 0..PMaxRows}

PCatalog(n, base, step, rising) ==
    [i \in 1..n |->
        [Item_Name |-> i, Month |-> "May", Count |-> 1,
         Amount |-> base + step * (IF rising THEN i - 1 ELSE n - i)]]

PCatalogs ==
    {PCatalog(n, base, step, rising) :
        n \in 1..PMaxItems, base \in PBases, step \in PSteps, rising \in BOOLEAN}

InitPareto ==
    /\ item_name = <<>>
    /\ category = "unset"
    /\ df \in PSmallDatasets \cup PCatalogs
    /\ frames = <<>>
    /\ sim = <<>>
    /\ st_errors = <<>>
    /\ pareto = NoPareto
    /\ growth = NoGrowth
    /\ sales_per_month = NoSalesPerMonth
    /\ top_10_items = NoTopItems
    /\ pandas \in PandasReleases

\* make_plot7_pareto_analysis(df), up to the summary it returns.
ParetoAnalysis ==
    /\ pareto.state = "idle"
    /\ \E item_sales \in sort_values_desc(item_sales_of(df)) :
          LET pareto_df == with_cumulative(collapse_tail(item_sales))
              total_items == Len(item_sales)
          IN  pareto' = [state |-> "returned",
                         item_sales |-> item_sales,
                         pareto_df |-> pareto_df,
                         total_items |-> total_items,
                         pareto_summary |->
                             pareto_summary_of(pareto_df, total_items)]
    /\ UNCHANGED <<item_name, category, df, frames, sim, st_errors, growth,
                   sales_per_month, top_10_items, pandas>>

NextPareto == ParetoAnalysis

SpecPareto == InitPareto /\ [][NextPareto]_vars

\* The total revenue of the dataset.
DatasetRevenue == SumAmounts(df)

\* The Cumulative_Pct column never decreases down the rows and ends at 100.
CumulativePctRisesTo100 ==
    LET t == pareto.pareto_df IN
    /\ \A k \in 1..(Len(t) - 1) :
          RGeq(t[k + 1].Cumulative_Pct, t[k].Cumulative_Pct)
    /\ t[Len(t)].Cumulative_Pct = R(100)

\* C5 (as claimed): for any non-empty dataset the cumulative percentages of
\* the Pareto rows are non-decreasing and the last one equals 100.
C5_AnyNonEmptyDataset ==
    (pareto.state = "returned" /\ df # <<>>) => CumulativePctRisesTo100

\* C5 (amended): for any dataset of non-negative amounts whose total revenue is
\* positive, the cumulative percentages of the Pareto rows (the tail past rank
\* 20 collapsed into 'All Other Items') are non-decreasing and the last one
\* equals 100.
C5_PositiveRevenue ==
    (pareto.state = "returned" /\ DatasetRevenue > 0) => CumulativePctRisesTo100

\* A catalog of more than 20 items has been analysed: the rows end with the
\* 'All Other Items' row, which holds revenue and brings the share to 100.
C5_Witness ==
    /\ pareto.state = "returned"
    /\ Len(pareto.item_sales) > N_TOP_ITEMS
    /\ Len(pareto.pareto_df) = N_TOP_ITEMS + 1
    /\ pareto.pareto_df[N_TOP_ITEMS + 1].Item_Name = AllOtherItems
    /\ pareto.pareto_df[N_TOP_ITEMS + 1].Amount > 0
    /\ RLess(pareto.pareto_df[N_TOP_ITEMS].Cumulative_Pct, R(100))
    /\ pareto.pareto_df[N_TOP_ITEMS + 1].Cumulative_Pct = R(100)

\* The revenue of the k best-selling items of the uncollapsed ranking.
TopRevenue(k) == SumAmounts(SubSeq(pareto.item_sales, 1, k))

\* The k best-selling items hold 80% of the revenue or more.
TopHolds80(k) ==
    /\ DatasetRevenue > 0
    /\ 100 * TopRevenue(k) >= 80 * DatasetRevenue

\* C6 (as claimed): the reported 'items needed for 80%' is the least number of
\* top-ranked real items whose cumulative share reaches 80%, the 'All Other
\* Items' row never being counted, and the reported percentage is that number
\* over the number of distinct items.
C6_MinimalRealItems ==
    (pareto.state = "returned"
        /\ pareto.pareto_summary.kind = "top items drive 80%") =>
        LET n == pareto.pareto_summary.num_items_for_80 IN
        /\ n \in 1..pareto.total_items
        /\ TopHolds80(n)
        /\ \A k \in 1..(n - 1) : ~TopHolds80(k)
        /\ pareto.pareto_summary.pct_items = Rat(100 * n, pareto.total_items)

\* More than 20 items, the 20 best of which hold less than 80%: the report says
\* 21, the position of the 'All Other Items' row, and the 21 best real items
\* hold less than 80% too.
C6_BucketCounted ==
    /\ pareto.state = "returned"
    /\ pareto.total_items > N_TOP_ITEMS
    /\ ~TopHolds80(N_TOP_ITEMS)
    /\ pareto.pareto_summary.num_items_for_80 = N_TOP_ITEMS + 1
    /\ ~TopHolds80(N_TOP_ITEMS + 1)

\* Some row of the Pareto table holds a cumulative share of 80% or more.
SomeRowReaches80 ==
    \E k \in 1..Len(pareto.pareto_df) :
        /\ DatasetRevenue > 0
        /\ 100 * pareto.pareto_df[k].Cumulative_Amount >= 80 * DatasetRevenue

\* C7: the analysis returns; when no Pareto row reaches a cumulative share of
\* 80% (the dataset is empty, or the total revenue is zero) the summary is the
\* 'analysis incomplete' one, and the 'Top N items drive 80%' summary is
\* returned only when some row has a cumulative share of 80 or more.
C7_IncompleteWithoutCrossing ==
    pareto.state # "idle" =>
        /\ pareto.state = "returned"
        /\ (df = <<>> \/ DatasetRevenue = 0) => ~SomeRowReaches80
        /\ ~SomeRowReaches80 =>
              pareto.pareto_summary.kind
                 = "incomplete (insufficient item diversity)"
        /\ pareto.pareto_summary.kind = "top items drive 80%"
              => SomeRowReaches80

\* A dataset with rows but no revenue has been analysed: every share is NaN
\* and the summary is the incomplete one.
C7_Witness ==
    /\ pareto.state = "returned"
    /\ df # <<>>
    /\ DatasetRevenue = 0
    /\ IsNaN(pareto.pareto_df[1].Cumulative_Pct)
    /\ pareto.pareto_summary.kind = "incomplete (insufficient item diversity)"

(***************************************************************************)
(* 4. make_plot6_movers_and_shakers                                        *)
(*                                                                         *)
(* Growth_Pct = 100 * (Second_Half - First_Half) / (First_Half + 1e-6) is  *)
(* of the order of 1e10 when First_Half is 0, past the integers TLC        *)
(* computes with.  It is kept as the exact quotient [num, den] of the      *)
(* whole number num = 100 * (Second_Half - First_Half) and the rational    *)
(* den = First_Half + 1e-6, and two quotients are compared exactly.        *)
(***************************************************************************)
FIRST_HALF_MONTHS == {"May", "June", "July"}
SECOND_HALF_MONTHS == {"August", "September", "October"}
MIN_TOTAL_SALES == 500
TOP_K == 10

\* x / y for a whole number x and a rational y, as IEEE division gives it.
Quotient(x, y) ==
    IF y.n = 0
    THEN [num |-> (IF x = 0 THEN 0 ELSE IF x > 0 THEN 1 ELSE -1), den |-> R(0)]
    ELSE IF y.n > 0 THEN [num |-> x, den |-> y]
    ELSE [num |-> -x, den |-> [n |-> -y.n, d |-> y.d]]

\* A quotient is finite unless its divisor is zero (inf, -inf or NaN).
QuotientIsFinite(q) == q.den.n # 0

\* q1 < q2 for finite quotients with divisors of the same denominator d:
\* num1 * den2.n < num2 * den1.n, the products computed in two limbs of base d.
QuotientLess(q1, q2) ==
    LET base == q1.den.d
        hi == q1.num * (q2.den.n \div base) - q2.num * (q1.den.n \div base)
        lo == q1.num * (q2.den.n % base) - q2.num * (q1.den.n % base)
    IN  hi + (lo \div base) < 0

\* The sum of Amount over the rows of d of one item in the given months;
\* "absent" is told apart from 0 by ItemsInMonths.
SumAmountIn(d, item, months) ==
    LET rows == SelectSeq(d, LAMBDA r : r.Item_Name = item /\ r.Month \in months)
    IN  SumSeq([i \in 1..Len(rows) |-> rows[i].Amount])

ItemsInMonths(d, months) ==
    {d[i].Item_Name : i \in {j \in 1..Len(d) : d[j].Month \in months}}

\* Lines 298-307: one row per item sold in either half, the items ascending;
\* an item absent from a half gets 0 there (fillna(0)).
growth_df_of(d) ==
    LET keys == SortedItems(ItemsInMonths(d, FIRST_HALF_MONTHS)
                              \cup ItemsInMonths(d, SECOND_HALF_MONTHS))
    IN  [k \in 1..Len(keys) |->
            LET First_Half == SumAmountIn(d, keys[k], FIRST_HALF_MONTHS)
                Second_Half == SumAmountIn(d, keys[k], SECOND_HALF_MONTHS)
            IN  [Item_Name |-> keys[k],
                 First_Half |-> First_Half,
                 Second_Half |-> Second_Half,
                 Growth_Pct |-> Quotient(100 * (Second_Half - First_Half),
                                         RAdd(R(First_Half), Eps)),
                 Total_Sales |-> First_Half + Second_Half]]

\* Mutant: the volume filter lets a total of exactly 500 through.
volume_filter_AtLeast(row) == row.Total_Sales >= MIN_TOTAL_SALES

\* Line 309: growth_df['Total_Sales'] > 500
volume_filter(row) == row.Total_Sales > MIN_TOTAL_SALES

\* Lines 308-310: the infinities become NaN, the rows of low volume go, and
\* the rows with a NaN go.
filtered_growth_df(t) ==
    SelectSeq(SelectSeq(t, volume_filter),
              LAMBDA r : QuotientIsFinite(r.Growth_Pct))

\* The sequence t without its element at position i.
RemoveAt(t, i) == SubSeq(t, 1, i - 1) \o SubSeq(t, i + 1, Len(t))

\* The first n rows of a table.
head(t, n) == SubSeq(t, 1, IF n < Len(t) THEN n ELSE Len(t))

\* sort_values(by='Growth_Pct', ascending=...) on the rows S: pandas sorts
\* with its default kind, quicksort, which is not stable, so rows of equal
\* Growth_Pct may come out in any order: every such order is a result.
RECURSIVE GrowthOrders(_, _)
GrowthOrders(S, ascending) ==
    IF S = {} THEN {<<>>}
    ELSE UNION { {<<r>> \o rest : rest \in GrowthOrders(S \ {r}, ascending)} :
                 r \in {x \in S : \A y \in S :
                           IF ascending
                           THEN ~QuotientLess(y.Growth_Pct, x.Growth_Pct)
                           ELSE ~QuotientLess(x.Growth_Pct, y.Growth_Pct)} }

\* The k rows of largest Growth_Pct in descending order, rows of equal value
\* in the order of the table (keep='first'): what nlargest computes, with a
\* stable sort, when the table has more than k rows.
RECURSIVE nlargest_first(_, _)
nlargest_first(k, t) ==
    IF k = 0 \/ t = <<>> THEN <<>>
    ELSE LET i == CHOOSE i \in 1..Len(t) :
                    /\ \A j \in 1..Len(t) :
                          ~QuotientLess(t[i].Growth_Pct, t[j].Growth_Pct)
                    /\ \A j \in 1..(i - 1) :
                          QuotientLess(t[j].Growth_Pct, t[i].Growth_Pct)
         IN  <<t[i]>> \o nlargest_first(k - 1, RemoveAt(t, i))

\* The same, ascending.
RECURSIVE nsmallest_first(_, _)
nsmallest_first(k, t) ==
    IF k = 0 \/ t = <<>> THEN <<>>
    ELSE LET i == CHOOSE i \in 1..Len(t) :
                    /\ \A j \in 1..Len(t) :
                          ~QuotientLess(t[j].Growth_Pct, t[i].Growth_Pct)
                    /\ \A j \in 1..(i - 1) :
                          QuotientLess(t[i].Growth_Pct, t[j].Growth_Pct)
         IN  <<t[i]>> \o nsmallest_first(k - 1, RemoveAt(t, i))

\* DataFrame.nlargest(k, 'Growth_Pct'), the tables it can return.  With one
\* column it is Series.nlargest: a table of k rows or fewer is returned as
\* sort_values(ascending=False).head(k), rows of equal value in an order the
\* sort does not fix; of a longer table the k largest rows are taken, rows of
\* equal value in the order of the table.
nlargest(k, t) ==
    IF k >= Len(t)
    THEN {head(sorted, k) : sorted \in GrowthOrders(Range(t), FALSE)}
    ELSE {nlargest_first(k, t)}

\* DataFrame.nsmallest(k, 'Growth_Pct'): the same, ascending.
nsmallest(k, t) ==
    IF k >= Len(t)
    THEN {head(sorted, k) : sorted \in GrowthOrders(Range(t), TRUE)}
    ELSE {nsmallest_first(k, t)}

\* The item profiles the growth datasets are built from: the rows of one item,
\* as <<Month, Amount>> pairs.
GProfiles ==
    << \* new in the second half, 600 in all: first half 0
       << <<"August", 400>>, <<"October", 200>> >>,
       \* new in the second half, 100 in all: under the volume threshold
       << <<"September", 100>> >>,
       \* fading: 600 then 100
       << <<"June", 500>>, <<"July", 100>>, <<"October", 100>> >>,
       \* growing: 200 then 400
       << <<"July", 200>>, <<"August", 400>> >>,
       \* 500 in all: exactly the threshold
       << <<"May", 250>>, <<"October", 250>> >> >>

\* The largest number of items of a growth dataset; and, for the datasets
\* with TOP_K items or fewer over the volume threshold, where the order of
\* rows of equal Growth_Pct is open, the largest number of items over the
\* threshold and the largest number of them of one profile (they tie).
GMaxItems == 12
GMaxSmall == 5
GMaxTied == 2

\* The rows of item `item` with profile `prof`.
GItemRows(item, prof) ==
    [i \in 1..Len(GProfiles[prof]) |->
        [Item_Name |-> item, Month |-> GProfiles[prof][i][1],
         Amount |-> GProfiles[prof][i][2], Count |-> 1]]

\* The dataset with counts[p] items of each profile p, the items numbered
\* profile by profile, upwards or downwards.
RECURSIVE GProfileOf(_, _, _)
GProfileOf(counts, p, i) ==
    IF i <= counts[p] THEN p ELSE GProfileOf(counts, p + 1, i - counts[p])

GDataset(counts, upwards) ==
    LET n == SumSeq(counts) IN
    Concat([i \in 1..n |->
               GItemRows(IF upwards THEN i ELSE n + 1 - i,
                         GProfileOf(counts, 1, i))])

\* The revenue of an item of profile p, and the profiles over the threshold.
GProfileRevenue(p) ==
    SumSeq([i \in 1..Len(GProfiles[p]) |-> GProfiles[p][i][2]])
GHighVolume == {p \in 1..Len(GProfiles) : GProfileRevenue(p) > MIN_TOTAL_SALES}

\* The numbers of items of each profile: at most one item of each profile
\* that is not over the threshold; of the items over it either more than
\* TOP_K, with GMaxItems items in all, or GMaxSmall at most, GMaxTied at most
\* of one profile.
GCounts ==
    {c \in [1..Len(GProfiles) -> 0..GMaxItems] :
        /\ \A p \in (1..Len(GProfiles)) \ GHighVolume : c[p] <= 1
        /\ LET high == SumSeq([p \in 1..Len(GProfiles) |->
                                  IF p \in GHighVolume THEN c[p] ELSE 0])
           IN  IF high > TOP_K THEN SumSeq(c) <= GMaxItems
               ELSE /\ high <= GMaxSmall
                    /\ \A p \in GHighVolume : c[p] <= GMaxTied}

GDatasets ==
    {GDataset(counts, upwards) : counts \in GCounts, upwards \in BOOLEAN}

InitGrowth ==
    /\ item_name = <<>>
    /\ category = "unset"
    /\ df \in GDatasets
    /\ frames = <<>>
    /\ sim = <<>>
    /\ st_errors = <<>>
    /\ pareto = NoPareto
    /\ growth = NoGrowth
    /\ sales_per_month = NoSalesPerMonth
    /\ top_10_items = NoTopItems
    /\ pandas \in PandasReleases

\* make_plot6_movers_and_shakers(df), up to the two tables it returns.
MoversAndShakers ==
    /\ growth.state = "idle"
    /\ \E growth_df \in {filtered_growth_df(growth_df_of(df))} :
       \E lists \in nlargest(TOP_K, growth_df)
                       \X nsmallest(TOP_K, growth_df) :
           growth' = [state |-> "returned",
                      growth_df |-> growth_df,
                      rising_stars |-> lists[1],
                      fading_items |-> lists[2],
                      rising_str |-> [text |-> "unset", item |-> 0],
                      fading_str |-> [text |-> "unset", item |-> 0]]
    /\ UNCHANGED <<item_name, category, df, frames, sim, st_errors, pareto,
                   sales_per_month, top_10_items, pandas>>

\* main, lines 445-446: the name of the first item of each table, or "N/A"
\* for an empty table.
MainSummary ==
    /\ growth.state = "returned"
    /\ growth' = [growth EXCEPT
                    !.state = "summarized",
                    !.rising_str =
                        IF growth.rising_stars # <<>>
                        THEN [text |-> "item",
                              item |-> growth.rising_stars[1].Item_Name]
                        ELSE [text |-> "N/A", item |-> 0],
                    !.fading_str =
                        IF growth.fading_items # <<>>
                        THEN [text |-> "item",
                              item |-> growth.fading_items[1].Item_Name]
                        ELSE [text |-> "N/A", item |-> 0]]
    /\ UNCHANGED <<item_name, category, df, frames, sim, st_errors, pareto,
                   sales_per_month, top_10_items, pandas>>

NextGrowth == MoversAndShakers \/ MainSummary

SpecGrowth == InitGrowth /\ [][NextGrowth]_vars

\* The revenue of an item of the dataset in each half of the period.
FirstHalfRevenue(item) == SumAmountIn(df, item, FIRST_HALF_MONTHS)
SecondHalfRevenue(item) == SumAmountIn(df, item, SECOND_HALF_MONTHS)

ListedItems(t) == {t[i].Item_Name : i \in 1..Len(t)}

\* The items with first-half revenue 0 and more than 500 in all.
NewHighVolumeItems ==
    {i \in ItemsIn(df) :
        FirstHalfRevenue(i) = 0 /\ SecondHalfRevenue(i) > MIN_TOTAL_SALES}

\* C8 (as claimed): an item with first-half revenue 0 and combined revenue
\* above 500 is in the rising list and never in the fading list, for every
\* dataset, and its growth value in the output is finite.
C8_NewItemRisingNotFading ==
    growth.state # "idle" =>
        \A i \in NewHighVolumeItems :
            /\ i \in ListedItems(growth.rising_stars)
            /\ i \notin ListedItems(growth.fading_items)
            /\ \A k \in 1..Len(growth.rising_stars) :
                  growth.rising_stars[k].Item_Name = i
                     => QuotientIsFinite(growth.rising_stars[k].Growth_Pct)

\* With more than 10 eligible items, a new high-volume item is in the rising
\* list and not in the fading list.
C8_RisingOnlyWhenCrowded ==
    /\ growth.state # "idle"
    /\ Len(growth.growth_df) > TOP_K
    /\ \E i \in NewHighVolumeItems :
          /\ i \in ListedItems(growth.rising_stars)
          /\ i \notin ListedItems(growth.fading_items)

\* The rows of a list are rows of items over the volume threshold, with a
\* finite growth, and there are at most 10 of them.
ListWellFormed(t) ==
    /\ Len(t) <= TOP_K
    /\ \A k \in 1..Len(t) :
          /\ t[k].Item_Name \in ItemsIn(df)
          /\ t[k].First_Half = FirstHalfRevenue(t[k].Item_Name)
          /\ t[k].Second_Half = SecondHalfRevenue(t[k].Item_Name)
          /\ t[k].First_Half + t[k].Second_Half > MIN_TOTAL_SALES
          /\ QuotientIsFinite(t[k].Growth_Pct)

NoItemOverThreshold ==
    \A i \in ItemsIn(df) :
        FirstHalfRevenue(i) + SecondHalfRevenue(i) <= MIN_TOTAL_SALES

\* C9: every row of the rising and fading lists belongs to an item whose
\* first_half + second_half revenue is strictly greater than 500 and whose
\* growth_pct is finite, and each list has at most 10 rows; when no item
\* survives the volume filter both lists are empty and main's summary falls
\* back to "N/A" for both.
C9_ListsFilteredAndBounded ==
    growth.state # "idle" =>
        /\ ListWellFormed(growth.rising_stars)
        /\ ListWellFormed(growth.fading_items)
        /\ NoItemOverThreshold =>
              /\ growth.rising_stars = <<>> /\ growth.fading_items = <<>>
              /\ growth.state = "summarized" =>
                    /\ growth.rising_str.text = "N/A"
                    /\ growth.fading_str.text = "N/A"

\* Eleven items pass the volume filter while others of the dataset do not:
\* both lists hold 10 rows, and main has named the first of each.
C9_Witness ==
    /\ growth.state = "summarized"
    /\ Len(growth.growth_df) = TOP_K + 1
    /\ Cardinality(ItemsIn(df)) > TOP_K + 1
    /\ Len(growth.rising_stars) = TOP_K
    /\ Len(growth.fading_items) = TOP_K
    /\ growth.rising_str.text = "item"
    /\ growth.rising_stars # growth.fading_items

(***************************************************************************)
(* 5. make_plot1_sales_per_month                                           *)
(*                                                                         *)
(* Line 74 makes Month a categorical column with the categories            *)
(* month_order, in that order; a month outside the categories becomes NaN. *)
(* groupby on a categorical key yields its groups in category order and    *)
(* leaves the rows with a NaN key out.  Line 119 does not pass observed=,  *)
(* and the source pins no pandas release: with the default of pandas 2     *)
(* (observed=False, under the FutureWarning that line 11 silences) every   *)
(* category has a group, the empty ones included; with the default of      *)
(* pandas 3 (observed=True) only the months that occur have one.           *)
(***************************************************************************)
NaNMonth == "NaN"

\* df.groupby('Month', observed=observed)['Amount'].sum().reset_index()
groupby_month_sum(d, observed) ==
    LET months ==
            IF observed
            THEN SelectSeq(month_order,
                           LAMBDA mo : \E i \in 1..Len(d) : d[i].Month = mo)
            ELSE month_order
    IN  [k \in 1..Len(months) |->
            [Month |-> months[k],
             Amount |-> SumSeq([i \in 1..Len(d) |->
                                  IF d[i].Month = months[k]
                                  THEN d[i].Amount ELSE 0])]]

\* The bounds of the monthly datasets: the number of rows and the amounts.
MMaxRows == 3
MAmounts == {5, 20}

MRows == [Item_Name : {1}, Month : Range(month_order) \cup {NaNMonth},
          Amount : MAmounts, Count : {1}]
MDatasets == UNION {[1..k -> MRows] : k \in 0..MMaxRows}

InitMonthly ==
    /\ item_name = <<>>
    /\ category = "unset"
    /\ df \in MDatasets
    /\ frames = <<>>
    /\ sim = <<>>
    /\ st_errors = <<>>
    /\ pareto = NoPareto
    /\ growth = NoGrowth
    /\ sales_per_month = NoSalesPerMonth
    /\ top_10_items = NoTopItems
    /\ pandas \in PandasReleases

\* The default of groupby's observed under a release.
observed_default(release) == release = "3.x"

\* make_plot1_sales_per_month(df): the grouped table the chart is drawn from.
SalesPerMonth ==
    /\ sales_per_month.state = "idle"
    /\ sales_per_month' =
          [state |-> "returned",
           rows |-> groupby_month_sum(df, observed_default(pandas))]
    /\ UNCHANGED <<item_name, category, df, frames, sim, st_errors, pareto,
                   growth, top_10_items, pandas>>

NextMonthly == SalesPerMonth

SpecMonthly == InitMonthly /\ [][NextMonthly]_vars

\* The sum of the amounts of the rows of the dataset with a given month.
RECURSIVE AmountOfRows(_)
AmountOfRows(I) ==
    IF I = {} THEN 0
    ELSE LET i == CHOOSE i \in I : TRUE IN df[i].Amount + AmountOfRows(I \ {i})

MonthRevenue(mo) == AmountOfRows({i \in 1..Len(df) : df[i].Month = mo})

\* C10 (as claimed): whatever the order of the input rows, the monthly
\* aggregation has 6 rows, in the order May, June, July, August, September,
\* October, each holding the sum of the amounts of its month (0 for a month
\* with no rows).
C10_MonthlyOrder ==
    sales_per_month.state = "returned" =>
        LET t == sales_per_month.rows IN
        /\ Len(t) = 6
        /\ [k \in 1..6 |-> t[k].Month]
              = <<"May", "June", "July", "August", "September", "October">>
        /\ \A k \in 1..6 : t[k].Amount = MonthRevenue(t[k].Month)

\* The rows came in the order October, May, with no row for the months
\* between: the table holds the May row and the October row and no other.
C10_EmptyMonthsLeftOut ==
    /\ Len(df) = 2
    /\ df[1].Month = "October" /\ df[2].Month = "May"
    /\ sales_per_month.state = "returned"
    /\ Len(sales_per_month.rows) = 2
    /\ sales_per_month.rows[1].Month = "May"
    /\ sales_per_month.rows[1].Amount = df[2].Amount
    /\ sales_per_month.rows[2].Month = "October"
    /\ sales_per_month.rows[2].Amount = df[1].Amount

(***************************************************************************)
(* 6. make_plot2_top_10_items                                              *)
(***************************************************************************)
TOP_N_ITEMS == 10

\* df.groupby('Item Name')['Amount'].sum(): one entry per item, the items
\* ascending (groupby sorts its keys), each with the sum of its amounts.
item_revenue_of(d) ==
    LET keys == SortedItems(ItemsIn(d)) IN
    [k \in 1..Len(keys) |->
        [Item_Name |-> keys[k], Amount |-> SumAmount(d, keys[k])]]

\* The k entries of largest Amount in descending order, entries of equal
\* Amount in the order of the series (keep='first'): what Series.nlargest
\* computes, with a stable sort, when the series has more than k entries.
RECURSIVE series_nlargest_first(_, _)
series_nlargest_first(k, t) ==
    IF k = 0 \/ t = <<>> THEN <<>>
    ELSE LET i == CHOOSE i \in 1..Len(t) :
                    /\ \A j \in 1..Len(t) : t[j].Amount <= t[i].Amount
                    /\ \A j \in 1..(i - 1) : t[j].Amount < t[i].Amount
         IN  <<t[i]>> \o series_nlargest_first(k - 1, RemoveAt(t, i))

\* Series.nlargest(k), the tables it can return.  A series of k entries or
\* fewer is returned as sort_values(ascending=False).head(k): the sort is the
\* default quicksort, which is not stable, so entries of equal Amount come in
\* an order it does not fix.  Of a longer series the k largest entries are
\* taken, entries of equal Amount in the order of the series.
series_nlargest(k, t) ==
    IF k >= Len(t)
    THEN {head(sorted, k) : sorted \in sort_values_desc(t)}
    ELSE {series_nlargest_first(k, t)}

\* The bounds of the top-items datasets.  Small datasets: at most TMaxRows
\* rows over the items 1..3 with the amounts TAmounts, in every order.
\* Catalogs: 1..TMaxItems items, one row each, item i with the amount
\* 10 * (1 + (i \div group)), so that the items of a group tie; the rows come
\* in name order or in reverse name order.  The groups are of TGroups items,
\* and of all the items in the catalogs of more than TOP_N_ITEMS items.
TMaxRows == 3
TMaxItems == 12
TAmounts == {10, 20}
TGroups == {1, 2, 3}

TSmallRows == [Item_Name : 1..3, Month : {"May"}, Amount : TAmounts, Count : {1}]
TSmallDatasets == UNION {[1..k -> TSmallRows] : k \in 0..TMaxRows}

TCatalog(n, group, name_order) ==
    [i \in 1..n |->
        LET item == IF name_order THEN i ELSE n + 1 - i IN
        [Item_Name |-> item, Month |-> "May", Count |-> 1,
         Amount |-> 10 * (1 + (item \div group))]]

TCatalogs ==
    {TCatalog(n, group, name_order) :
        n \in 1..TMaxItems, group \in TGroups, name_order \in BOOLEAN}
    \cup {TCatalog(n, n + 1, name_order) :
             n \in (TOP_N_ITEMS + 1)..TMaxItems, name_order \in BOOLEAN}

InitTopItems ==
    /\ item_name = <<>>
    /\ category = "unset"
    /\ df \in TSmallDatasets \cup TCatalogs
    /\ frames = <<>>
    /\ sim = <<>>
    /\ st_errors = <<>>
    /\ pareto = NoPareto
    /\ growth = NoGrowth
    /\ sales_per_month = NoSalesPerMonth
    /\ top_10_items = NoTopItems
    /\ pandas \in PandasReleases

\* make_plot2_top_10_items(df): the table it returns beside the chart.
TopItems ==
    /\ top_10_items.state = "idle"
    /\ \E rows \in series_nlargest(TOP_N_ITEMS, item_revenue_of(df)) :
           top_10_items' = [state |-> "returned", rows |-> rows]
    /\ UNCHANGED <<item_name, category, df, frames, sim, st_errors, pareto,
                   growth, sales_per_month, pandas>>

NextTopItems == TopItems

SpecTopItems == InitTopItems /\ [][NextTopItems]_vars

\* The position in the dataset of the first row of an item.
FirstRowOf(item) ==
    CHOOSE i \in 1..Len(df) :
        /\ df[i].Item_Name = item
        /\ \A j \in 1..(i - 1) : df[j].Item_Name # item

\* The summed amount of an item of the dataset.
ItemRevenue(item) ==
    AmountOfRows({i \in 1..Len(df) : df[i].Item_Name = item})

\* Item a is ranked before item b by revenue, ties by input encounter order.
RankedBeforeByEncounter(a, b) ==
    \/ ItemRevenue(a) > ItemRevenue(b)
    \/ ItemRevenue(a) = ItemRevenue(b) /\ FirstRowOf(a) < FirstRowOf(b)

\* The table holds the min(N, number of items) best items with their sums.
HoldsTopItems(t) ==
    /\ Len(t) = IF Cardinality(ItemsIn(df)) < TOP_N_ITEMS
                THEN Cardinality(ItemsIn(df)) ELSE TOP_N_ITEMS
    /\ \A k \in 1..Len(t) :
          /\ t[k].Item_Name \in ItemsIn(df)
          /\ t[k].Amount = ItemRevenue(t[k].Item_Name)
    /\ \A k \in 1..(Len(t) - 1) :
          /\ t[k].Amount >= t[k + 1].Amount
          /\ t[k].Item_Name # t[k + 1].Item_Name
    /\ \A i \in ItemsIn(df) \ ListedItems(t) :
          \A k \in 1..Len(t) : ItemRevenue(i) <= t[k].Amount

\* C11 (as claimed): the top-N query returns the N items with the largest
\* summed amount in descending order, and of two items with equal summed
\* amount the one whose first row comes earlier in the input is ranked first.
C11_TiesByEncounterOrder ==
    top_10_items.state = "returned" =>
        LET t == top_10_items.rows IN
        /\ HoldsTopItems(t)
        /\ \A k \in 1..(Len(t) - 1) :
              RankedBeforeByEncounter(t[k].Item_Name, t[k + 1].Item_Name)
        /\ \A i \in ItemsIn(df) \ ListedItems(t) :
              \A k \in 1..Len(t) : RankedBeforeByEncounter(t[k].Item_Name, i)

\* N + 1 items of equal amount, one row each, the rows in reverse name order:
\* the table holds the items 1..N in name order, where the input encounter
\* order ranks the items N + 1, N, ..., 2.
C11_TieDecidedByName ==
    /\ top_10_items.state = "returned"
    /\ Len(df) = TOP_N_ITEMS + 1
    /\ \A i \in 1..Len(df) :
          df[i].Item_Name = Len(df) + 1 - i /\ df[i].Amount = df[1].Amount
    /\ Len(top_10_items.rows) = TOP_N_ITEMS
    /\ \A k \in 1..TOP_N_ITEMS : top_10_items.rows[k].Item_Name = k

====
